---------------------------- MODULE Spec2Model ----------------------------
(***************************************************************************)
(* A model of goagen/codegen/types.go: the Go type-name and type-definition *)
(* synthesizer of goa's code generator.                                     *)
(*                                                                          *)
(* Go strings are TLA+ strings; a character is a string of length one.      *)
(* Goify reads its input byte by byte (rune(str[i])), so an input string of *)
(* the model is a string of bytes, each byte read as the rune of the same   *)
(* value. The module is plain ASCII: the runes above 0x7F that the model    *)
(* needs, and the backquote, are written with the stand-ins defined below.  *)
(***************************************************************************)
EXTENDS Integers, Sequences, FiniteSets, TLC

VARIABLES
    pc,         \* "call": an operation is about to run; "done": it returned
    op,         \* the operation called
    args,       \* its arguments
    result,     \* the string it returned ("" before it returns)
    TempCount,  \* var TempCount int
    issued      \* the names Tempvar returned so far in this run

vars == <<pc, op, args, result, TempCount, issued>>

-----------------------------------------------------------------------------
(* Bounds of the model. *)

\* Longest string handed to Goify, over GoifyAlphabet.
MaxLen == 3
\* Largest number of Tempvar calls of one run.
MaxTemp == 11
\* Most fields of a generated object.
MaxFields == 3
\* Largest tabs argument.
MaxTabs == 1

-----------------------------------------------------------------------------
(* Strings, bytes and runes. *)

Char(s, i) == SubSeq(s, i, i)

LowerLetters == "abcdefghijklmnopqrstuvwxyz"
UpperLetters == "ABCDEFGHIJKLMNOPQRSTUVWXYZ"
Digits == "0123456789"

\* Stand-ins for three runes above 0x7F. The UTF-8 encoding of e-acute is
\* the two bytes 0xC3 0xA9, which rune(str[i]) reads as U+00C3 and U+00A9.
\*   HiUpper:  U+00C3, A-tilde, an upper-case letter
\*   HiLower:  U+00E3, a-tilde, the lower case of U+00C3
\*   HiSymbol: U+00A9, the copyright sign, neither a letter nor a digit
HiUpper == "^"
HiLower == "~"
HiSymbol == "@"

\* Stand-in for the backquote that opens and closes a Go struct tag.
Backquote == "'"

\* The characters of field and type names, in ascending byte order.
ByteOrder ==
    "-" \o Digits \o UpperLetters \o "_" \o LowerLetters
        \o HiSymbol \o HiUpper \o HiLower

IndexOf(s, c) == CHOOSE i \in 1..Len(s) : Char(s, i) = c

Within(s, c) == \E i \in 1..Len(s) : Char(s, i) = c

Chars(s) == {Char(s, i) : i \in 1..Len(s)}

LowerSet == Chars(LowerLetters)

UpperSet == Chars(UpperLetters)

DigitSet == Chars(Digits)

\* The upper case of each lower-case letter, and the reverse.
UpperOf ==
    [c \in LowerSet \cup {HiLower} |->
        IF c = HiLower THEN HiUpper
        ELSE Char(UpperLetters, IndexOf(LowerLetters, c))]

LowerOf ==
    [c \in UpperSet \cup {HiUpper} |->
        IF c = HiUpper THEN HiLower
        ELSE Char(LowerLetters, IndexOf(UpperLetters, c))]

\* The place of each character in the byte order.
ByteRank == [c \in Chars(ByteOrder) |-> IndexOf(ByteOrder, c)]

\* unicode.IsLetter, unicode.IsDigit, unicode.ToUpper, unicode.ToLower
IsLetter(r) == r \in LowerSet \/ r \in UpperSet \/ r \in {HiUpper, HiLower}

IsDigit(r) == r \in DigitSet

ToUpper(r) == IF r \in DOMAIN UpperOf THEN UpperOf[r] ELSE r

ToLower(r) == IF r \in DOMAIN LowerOf THEN LowerOf[r] ELSE r

\* Go's s < t on strings: byte-wise lexicographic order.
RECURSIVE StrLess(_, _)
StrLess(s, t) ==
    IF Len(t) = 0 THEN FALSE
    ELSE IF Len(s) = 0 THEN TRUE
    ELSE IF Char(s, 1) = Char(t, 1)
         THEN StrLess(SubSeq(s, 2, Len(s)), SubSeq(t, 2, Len(t)))
         ELSE ByteRank[Char(s, 1)] < ByteRank[Char(t, 1)]

-----------------------------------------------------------------------------
(* Goify and the reserved-word table. *)

reserved ==
    { "byte", "complex128", "complex64", "float32", "float64", "int", "int16",
      "int32", "int64", "int8", "rune", "string", "uint16", "uint32", "uint64",
      "uint8",
      "break", "case", "chan", "const", "continue", "default", "defer", "else",
      "fallthrough", "for", "func", "go", "goto", "if", "import", "interface",
      "map", "package", "range", "return", "select", "struct", "switch", "type",
      "var" }

\* Cased without the upper-casing after an underscore.
CasedIgnoringUnderscore(r, firstUpper, firstWritten, nextUpper) ==
    IF ~firstWritten
    THEN IF firstUpper THEN ToUpper(r) ELSE ToLower(r)
    ELSE r

\* The rune one turn of the loop writes for the letter or digit r
\* (lines 227-238).
Cased(r, firstUpper, firstWritten, nextUpper) ==
    IF ~firstWritten
    THEN IF firstUpper THEN ToUpper(r) ELSE ToLower(r)
    ELSE IF nextUpper THEN ToUpper(r)
    ELSE r

\* The loop of Goify over the bytes of str, from byte i on: b is the buffer.
RECURSIVE GoifyLoop(_, _, _, _, _, _)
GoifyLoop(str, i, firstUpper, b, firstWritten, nextUpper) ==
    IF i > Len(str) THEN b
    ELSE LET r == Char(str, i) IN
         IF r = "_"
         THEN GoifyLoop(str, i + 1, firstUpper, b, firstWritten, TRUE)
         ELSE IF IsLetter(r) \/ IsDigit(r)
         THEN GoifyLoop(str, i + 1, firstUpper,
                        b \o Cased(r, firstUpper, firstWritten, nextUpper),
                        TRUE, FALSE)
         ELSE GoifyLoop(str, i + 1, firstUpper, b, firstWritten, nextUpper)

Goify(str, firstUpper) ==
    IF str = "ok" /\ firstUpper THEN "OK"
    ELSE IF str = "id" /\ firstUpper THEN "ID"
    ELSE LET b == GoifyLoop(str, 1, firstUpper, "", FALSE, FALSE) IN
         IF Len(b) = 0 THEN "_v"
         ELSE IF b \in reserved THEN b \o "_"
         ELSE b

-----------------------------------------------------------------------------
(* The type tree of package design: data types and attribute definitions.  *)
(* The fields of an Object are listed in the order in which ranging over   *)
(* the Go map yields them in this run; their names are distinct.           *)

Primitive(kind) == [k |-> "Primitive", Kind |-> kind]

Array(elem) == [k |-> "Array", ElemType |-> elem]

Hash(key, elem) == [k |-> "Hash", KeyType |-> key, ElemType |-> elem]

Object(fields) == [k |-> "Object", fields |-> fields]

UserTypeDefinition(name, versions, def) ==
    [k |-> "UserType", TypeName |-> name, APIVersions |-> versions,
     AttributeDefinition |-> def]

MediaTypeDefinition(name, versions, def) ==
    [k |-> "MediaType", TypeName |-> name, APIVersions |-> versions,
     AttributeDefinition |-> def]

\* An AttributeDefinition: Required is the set of names of its required
\* validation, Pointer marks a primitive field rendered as a pointer.
AttributeDefinition(type, desc, required, pointer) ==
    [k |-> "Attribute", Type |-> type, Description |-> desc,
     Required |-> required, Pointer |-> pointer]

Field(name, att) == [name |-> name, att |-> att]

IsNamed(t) == t.k \in {"UserType", "MediaType"}

\* DataStructure.Definition()
Definition(ds) == IF ds.k = "Attribute" THEN ds ELSE ds.AttributeDefinition

\* DataType.IsObject()
RECURSIVE IsObject(_)
IsObject(t) ==
    IF t.k = "Object" THEN TRUE
    ELSE IF IsNamed(t) THEN IsObject(t.AttributeDefinition.Type)
    ELSE FALSE

\* AttributeDefinition.AllRequired(), also of the attribute a named type embeds
AllRequired(a) == Definition(a).Required

\* AttributeDefinition.IsRequired(name)
IsRequired(def, name) == name \in AllRequired(def)

\* actual[name]: the attribute of field name of an Object
Lookup(actual, name) ==
    (CHOOSE i \in 1..Len(actual.fields) : actual.fields[i].name = name)

FieldAtt(actual, name) == actual.fields[Lookup(actual, name)].att

\* AttributeDefinition.IsPrimitivePointer(name)
IsPrimitivePointer(def, name) ==
    LET att == FieldAtt(def.Type, name) IN
    att.Type.k = "Primitive" /\ att.Pointer

-----------------------------------------------------------------------------
(* The helpers of types.go. *)

\* The count tab characters WriteTabs writes to the buffer.
RECURSIVE WriteTabs(_)
WriteTabs(count) == IF count <= 0 THEN "" ELSE "\t" \o WriteTabs(count - 1)

\* fmt.Sprintf("%d", n) for n >= 0
RECURSIVE Itoa(_)
Itoa(n) ==
    IF n < 10 THEN Char(Digits, n + 1)
    ELSE Itoa(n \div 10) \o Char(Digits, (n % 10) + 1)

\* Tempvar that formats the name without counting.
TempvarStale(count) ==
    [TempCount |-> count, name |-> "tmp" \o Itoa(count)]

\* Tempvar, called with TempCount = count: the new value of TempCount and the
\* name returned.
Tempvar(count) ==
    [TempCount |-> count + 1, name |-> "tmp" \o Itoa(count + 1)]

\* PackagePrefix that qualifies every type referred to from a version package.
PackagePrefixAlways(ut, versioned, pkg) ==
    IF ~versioned THEN "" ELSE pkg \o "."

PackagePrefix(ut, versioned, pkg) ==
    IF ~versioned THEN ""
    ELSE IF Len(ut.APIVersions) = 0 THEN pkg \o "."
    ELSE ""

\* for n := range actual { keys[i] = n; i++ }
Keys(actual) == [i \in 1..Len(actual.fields) |-> actual.fields[i].name]

\* sort.Strings(keys)
RECURSIVE InsertSorted(_, _)
InsertSorted(sorted, s) ==
    IF Len(sorted) = 0 THEN <<s>>
    ELSE IF StrLess(s, Head(sorted)) THEN <<s>> \o sorted
    ELSE <<Head(sorted)>> \o InsertSorted(Tail(sorted), s)

\* A sort that leaves the keys in the order the map yielded them.
SortStringsSkipped(keys) == keys

RECURSIVE SortStrings(_)
SortStrings(keys) ==
    IF Len(keys) = 0 THEN <<>>
    ELSE InsertSorted(SortStrings(Tail(keys)), Head(keys))

RECURSIVE GoNativeType(_)
GoNativeType(t) ==
    CASE t.k = "Primitive" ->
            (CASE t.Kind = "Boolean"  -> "bool"
               [] t.Kind = "Integer"  -> "int"
               [] t.Kind = "Number"   -> "float64"
               [] t.Kind = "String"   -> "string"
               [] t.Kind = "DateTime" -> "time.Time"
               [] t.Kind = "Any"      -> "interface{}")
      [] t.k = "Array" -> "[]" \o GoNativeType(t.ElemType.Type)
      [] t.k = "Object" -> "map[string]interface{}"
      [] t.k = "Hash" ->
            "map[" \o GoNativeType(t.KeyType.Type) \o "]"
                   \o GoNativeType(t.ElemType.Type)
      [] t.k = "MediaType" -> GoNativeType(t.AttributeDefinition.Type)
      [] t.k = "UserType" -> GoNativeType(t.AttributeDefinition.Type)

-----------------------------------------------------------------------------
(* GoTypeDef, GoPackageTypeRef and GoPackageTypeName. *)

\* FieldTags with the test of IsRequired inverted.
FieldTagsInverted(def, name, jsonTags) ==
    IF jsonTags
    THEN LET omit == IF IsRequired(def, name) THEN ",omitempty" ELSE "" IN
         " " \o Backquote \o "json:\"" \o name \o omit
             \o "\" xml:\"" \o name \o omit \o "\"" \o Backquote
    ELSE ""

\* The json and xml tags of field name (lines 68-75).
FieldTags(def, name, jsonTags) ==
    IF jsonTags
    THEN LET omit == IF ~IsRequired(def, name) THEN ",omitempty" ELSE "" IN
         " " \o Backquote \o "json:\"" \o name \o omit
             \o "\" xml:\"" \o name \o omit \o "\"" \o Backquote
    ELSE ""

\* The comment that carries the description of a field (lines 76-79).
FieldDesc(att) ==
    IF att.Description # "" THEN "// " \o att.Description \o "\n" ELSE ""

\* What one turn of the loop over keys writes, given the field's typedef.
FieldLine(def, name, typedef, tabs, jsonTags) ==
    WriteTabs(tabs + 1)
        \o FieldDesc(FieldAtt(def.Type, name))
        \o Goify(name, TRUE) \o " "
        \o (IF IsObject(FieldAtt(def.Type, name).Type) \/ IsPrimitivePointer(def, name)
            THEN "*" \o typedef ELSE typedef)
        \o FieldTags(def, name, jsonTags) \o "\n"

\* RefPrefix that forgets the media types.
RefPrefixUserTypesOnly(t) ==
    CASE t.k = "UserType" -> IF IsObject(t) THEN "*" ELSE ""
      [] t.k = "Object" -> "*"
      [] OTHER -> ""

\* The prefix GoPackageTypeRef puts before the type name.
RefPrefix(t) ==
    CASE IsNamed(t) -> IF IsObject(t) THEN "*" ELSE ""
      [] t.k = "Object" -> "*"
      [] OTHER -> ""

\* GoPackageTypeName of an array, given the reference to its element.
ArrayTypeName(elemRef) == "[]" \o elemRef

\* ElemTabs that passes tabs on unchanged.
ElemTabsUnchanged(tabs) == tabs

\* The tabs GoPackageTypeName passes on for the element of an array or map.
ElemTabs(tabs) == tabs + 1

RECURSIVE GoTypeDef(_, _, _, _, _)
RECURSIVE GoPackageTypeRef(_, _, _, _, _)
RECURSIVE GoPackageTypeName(_, _, _, _, _)
RECURSIVE ObjectFields(_, _, _, _, _, _)

\* for _, name := range keys { ... }: the turns for keys[i..] of the loop
ObjectFields(def, keys, versioned, defPkg, tabs, jsonTags) ==
    IF Len(keys) = 0 THEN ""
    ELSE LET name == Head(keys)
             typedef == GoTypeDef(FieldAtt(def.Type, name), versioned, defPkg,
                                  tabs + 1, jsonTags)
         IN FieldLine(def, name, typedef, tabs, jsonTags)
              \o ObjectFields(def, Tail(keys), versioned, defPkg, tabs, jsonTags)

GoTypeName(t, required, tabs) == GoPackageTypeName(t, required, FALSE, "", tabs)

GoTypeRef(t, required, tabs) == GoPackageTypeRef(t, required, FALSE, "", tabs)

GoTypeDef(ds, versioned, defPkg, tabs, jsonTags) ==
    LET def == Definition(ds)
        t == def.Type
        Starred(att) ==
            LET d == GoTypeDef(att, versioned, defPkg, tabs, jsonTags) IN
            IF IsObject(att.Type) THEN "*" \o d ELSE d
    IN CASE t.k = "Primitive" -> GoTypeName(t, {}, tabs)
         [] t.k = "Array" -> "[]" \o Starred(t.ElemType)
         [] t.k = "Hash" -> "map[" \o Starred(t.KeyType) \o "]" \o Starred(t.ElemType)
         [] t.k = "Object" ->
               "struct {\n"
                 \o ObjectFields(def, SortStrings(Keys(t)), versioned, defPkg,
                                 tabs, jsonTags)
                 \o WriteTabs(tabs) \o "}"
         [] IsNamed(t) -> GoPackageTypeName(t, AllRequired(t), versioned, defPkg, tabs)

GoPackageTypeRef(t, required, versioned, defPkg, tabs) ==
    RefPrefix(t) \o GoPackageTypeName(t, required, versioned, defPkg, tabs)

GoPackageTypeName(t, required, versioned, defPkg, tabs) ==
    CASE t.k = "Primitive" -> GoNativeType(t)
      [] t.k = "Array" ->
            ArrayTypeName(GoPackageTypeRef(t.ElemType.Type, AllRequired(t.ElemType),
                                           versioned, defPkg, ElemTabs(tabs)))
      [] t.k = "Object" ->
            GoTypeDef(AttributeDefinition(t, "", required, FALSE),
                      versioned, defPkg, tabs, FALSE)
      [] t.k = "Hash" ->
            "map[" \o GoPackageTypeRef(t.KeyType.Type, AllRequired(t.KeyType),
                                       versioned, defPkg, ElemTabs(tabs))
                   \o "]"
                   \o GoPackageTypeRef(t.ElemType.Type, AllRequired(t.ElemType),
                                       versioned, defPkg, ElemTabs(tabs))
      [] IsNamed(t) -> PackagePrefix(t, versioned, defPkg) \o Goify(t.TypeName, TRUE)

-----------------------------------------------------------------------------
(* The inputs of Goify. *)

GoifyAlphabet == {"a", "B", "1", "_", "-", HiUpper, HiSymbol}

RECURSIVE Strings(_, _)
Strings(alphabet, n) ==
    IF n = 0 THEN {""}
    ELSE LET shorter == Strings(alphabet, n - 1) IN
         shorter \cup {s \o c : s \in shorter, c \in alphabet}

SpecialNames ==
    {"ok", "id", "type", "_type", "go", "int", "user_name", "userName", "name"}

GoifyInputs ==
    [str : Strings(GoifyAlphabet, MaxLen) \cup SpecialNames, firstUpper : BOOLEAN]

-----------------------------------------------------------------------------
(* The type trees handed to the renderers. *)

Kinds == {"Boolean", "Integer", "Number", "String", "DateTime", "Any"}

PrimitiveTypes == {Primitive(kind) : kind \in Kinds}

Plain(t) == AttributeDefinition(t, "", {}, FALSE)

IntAtt == Plain(Primitive("Integer"))

StrAtt == Plain(Primitive("String"))

DescStrAtt == AttributeDefinition(Primitive("String"), "the name", {}, FALSE)

PtrIntAtt == AttributeDefinition(Primitive("Integer"), "", {}, TRUE)

\* An object nested in another: b is required, id is not, and the map
\* yields id before b.
InnerObject == Object(<<Field("id", DescStrAtt), Field("b", IntAtt)>>)

InnerAtt == AttributeDefinition(InnerObject, "", {"b"}, FALSE)

\* Named types: user types and media types, with and without versions, over
\* an object, a primitive and an array.
TypeNames == {"bottle", "user_media"}

NamedDefinitions ==
    { AttributeDefinition(Object(<<Field("id", IntAtt)>>), "", {"id"}, FALSE),
      StrAtt,
      Plain(Array(StrAtt)) }

NamedTypes ==
    { UserTypeDefinition(n, v, d) :
        n \in TypeNames, v \in {<<>>, <<"v1">>}, d \in NamedDefinitions }
    \cup
    { MediaTypeDefinition(n, v, d) :
        n \in TypeNames, v \in {<<>>, <<"v1">>}, d \in NamedDefinitions }

FieldNames == {"a", "id", "user_name", "userName"}

RequiredSets == {{}, {"id"}, {"a", "user_name"}}

\* The sequences of at most n fields with distinct names and the given
\* attributes: every order in which the map may yield them.
RECURSIVE FieldLists(_, _, _)
FieldLists(names, atts, n) ==
    IF n = 0 THEN {<<>>}
    ELSE LET shorter == FieldLists(names, atts, n - 1) IN
         shorter \cup
         { Append(fs, Field(nm, a)) :
             fs \in {f \in shorter : Len(f) = n - 1},
             nm \in names, a \in atts }

DistinctNames(fs) ==
    \A i, j \in 1..Len(fs) : i # j => fs[i].name # fs[j].name

FlatObjects ==
    { Object(fs) :
        fs \in {f \in FieldLists(FieldNames, {IntAtt, DescStrAtt}, MaxFields) :
                    DistinctNames(f)} }

\* Attributes of fields that are pointers, objects, arrays, maps and named
\* types.
RichAtts ==
    { PtrIntAtt, InnerAtt, Plain(Array(InnerAtt)), Plain(Hash(StrAtt, InnerAtt)) }
    \cup { Plain(t) : t \in {n \in NamedTypes : n.TypeName = "bottle"
                                              /\ n.k = "UserType"
                                              /\ n.AttributeDefinition # StrAtt} }
    \cup { Plain(Array(Plain(t))) :
             t \in {n \in NamedTypes : n.TypeName = "bottle"
                                       /\ n.k = "MediaType"
                                       /\ n.APIVersions = <<>>
                                       /\ n.AttributeDefinition.Type.k = "Object"} }

\* Objects of two such fields, the map yielding id first or last.
RichObjects ==
    { Object(<<Field("id", a1), Field("a", a2)>>) : a1 \in RichAtts, a2 \in RichAtts }
    \cup { Object(<<Field("a", a2), Field("id", InnerAtt)>>) : a2 \in RichAtts }

FlatAtts ==
    { AttributeDefinition(o, "", req, FALSE) : o \in FlatObjects, req \in RequiredSets }

RichObjectAtts ==
    { AttributeDefinition(o, "", req, FALSE) : o \in RichObjects, req \in RequiredSets }

\* Element and key attributes of arrays and maps.
ElemAtts ==
    { StrAtt, InnerAtt, Plain(Array(IntAtt)), Plain(Array(InnerAtt)),
      Plain(Hash(StrAtt, IntAtt)) }
    \cup { Plain(t) : t \in NamedTypes }

KeyAtts == { StrAtt, InnerAtt }

Types ==
    PrimitiveTypes \cup NamedTypes
    \cup { Array(e) : e \in ElemAtts }
    \cup { Hash(key, e) : key \in KeyAtts, e \in ElemAtts }
    \cup { InnerObject } \cup RichObjects
    \cup { o \in FlatObjects : Len(o.fields) <= 1 }

DataStructures ==
    RichObjectAtts \cup NamedTypes
    \cup { Plain(t) : t \in Types \ (FlatObjects \cup RichObjects) }

DefPkg == "app"

\* The flat objects refer to no named type: they are rendered from the
\* default package only.
GoTypeDefInputs ==
    [ds : DataStructures, versioned : BOOLEAN, defPkg : {DefPkg},
     tabs : 0..MaxTabs, jsonTags : BOOLEAN]
    \cup
    [ds : FlatAtts, versioned : {FALSE}, defPkg : {DefPkg},
     tabs : 0..MaxTabs, jsonTags : BOOLEAN]

TypeInputs ==
    [t : Types, required : RequiredSets, versioned : BOOLEAN, defPkg : {DefPkg},
     tabs : 0..MaxTabs]

-----------------------------------------------------------------------------
(* The operations. Each runs once pc = "call" and leaves its string in      *)
(* result.                                                                  *)

Return(s) ==
    /\ result' = s
    /\ pc' = "done"
    /\ UNCHANGED <<op, args>>

GoifyStep ==
    /\ pc = "call" /\ op = "Goify"
    /\ Return(Goify(args.str, args.firstUpper))
    /\ UNCHANGED <<TempCount, issued>>

GoTypeDefStep ==
    /\ pc = "call" /\ op = "GoTypeDef"
    /\ Return(GoTypeDef(args.ds, args.versioned, args.defPkg, args.tabs,
                        args.jsonTags))
    /\ UNCHANGED <<TempCount, issued>>

GoPackageTypeRefStep ==
    /\ pc = "call" /\ op = "GoPackageTypeRef"
    /\ Return(GoPackageTypeRef(args.t, args.required, args.versioned,
                               args.defPkg, args.tabs))
    /\ UNCHANGED <<TempCount, issued>>

GoPackageTypeNameStep ==
    /\ pc = "call" /\ op = "GoPackageTypeName"
    /\ Return(GoPackageTypeName(args.t, args.required, args.versioned,
                                args.defPkg, args.tabs))
    /\ UNCHANGED <<TempCount, issued>>

GoNativeTypeStep ==
    /\ pc = "call" /\ op = "GoNativeType"
    /\ Return(GoNativeType(args.t))
    /\ UNCHANGED <<TempCount, issued>>

PackagePrefixStep ==
    /\ pc = "call" /\ op = "PackagePrefix"
    /\ Return(PackagePrefix(args.ut, args.versioned, args.pkg))
    /\ UNCHANGED <<TempCount, issued>>

TempvarStep ==
    /\ pc = "call" /\ op = "Tempvar"
    /\ TempCount' = Tempvar(TempCount).TempCount
    /\ Return(Tempvar(TempCount).name)
    /\ issued' = issued \cup {Tempvar(TempCount).name}

Fresh == result = "" /\ TempCount = 0 /\ issued = {}

InitGoify ==
    /\ pc = "call" /\ op = "Goify"
    /\ args \in GoifyInputs
    /\ Fresh

SpecGoify == InitGoify /\ [][GoifyStep]_vars

InitTypes ==
    /\ pc = "call"
    /\ \/ op = "GoTypeDef" /\ args \in GoTypeDefInputs
       \/ op = "GoPackageTypeRef" /\ args \in TypeInputs
       \/ op = "GoPackageTypeName" /\ args \in TypeInputs
    /\ Fresh

TypesNext == GoTypeDefStep \/ GoPackageTypeRefStep \/ GoPackageTypeNameStep

SpecTypes == InitTypes /\ [][TypesNext]_vars

-----------------------------------------------------------------------------
(* A sequential run: the generator calls one operation after another.       *)

\* The calls of a run, a few of each operation.
RunTypes ==
    { Primitive("DateTime"), InnerObject, Array(InnerAtt), Hash(StrAtt, IntAtt) }
    \cup { n \in NamedTypes : n.TypeName = "bottle" /\ n.k = "UserType"
                              /\ n.AttributeDefinition.Type.k = "Object" }

Calls ==
    { [op |-> "Tempvar", args |-> <<>>] }
    \cup { [op |-> "Goify", args |-> a] :
             a \in [str : {"user_name", "tmp1", "_"}, firstUpper : BOOLEAN] }
    \cup { [op |-> "GoTypeDef", args |-> a] :
             a \in [ds : {InnerAtt}, versioned : BOOLEAN, defPkg : {DefPkg},
                    tabs : {0}, jsonTags : BOOLEAN] }
    \cup { [op |-> "GoPackageTypeRef", args |-> a] :
             a \in [t : RunTypes, required : {{}}, versioned : {TRUE},
                    defPkg : {DefPkg}, tabs : {0}] }
    \cup { [op |-> "GoPackageTypeName", args |-> a] :
             a \in [t : RunTypes, required : {{"id"}}, versioned : {FALSE},
                    defPkg : {DefPkg}, tabs : {0}] }
    \cup { [op |-> "GoNativeType", args |-> a] : a \in [t : RunTypes] }
    \cup { [op |-> "PackagePrefix", args |-> a] :
             a \in [ut : {n \in RunTypes : IsNamed(n)}, versioned : BOOLEAN,
                    pkg : {DefPkg}] }

\* The caller goes on to its next call.
Invoke ==
    /\ pc = "done"
    /\ \E c \in Calls :
          /\ c.op = "Tempvar" => TempCount < MaxTemp
          /\ op' = c.op
          /\ args' = c.args
    /\ pc' = "call"
    /\ result' = ""
    /\ UNCHANGED <<TempCount, issued>>

Init ==
    /\ pc = "call"
    /\ \E c \in Calls : op = c.op /\ args = c.args
    /\ Fresh

Next ==
    \/ Invoke
    \/ TempvarStep
    \/ GoifyStep
    \/ GoTypeDefStep
    \/ GoPackageTypeRefStep
    \/ GoPackageTypeNameStep
    \/ GoNativeTypeStep
    \/ PackagePrefixStep

Spec == Init /\ [][Next]_vars

-----------------------------------------------------------------------------
(* Claims about Goify, checked under SpecGoify. *)

Returned(o) == pc = "done" /\ op = o

\* The number of letters and digits among the first j bytes of str: the
\* place in Goify's buffer of the rune written for byte j.
Written(str, j) ==
    Cardinality({m \in 1..j : IsLetter(Char(str, m)) \/ IsDigit(Char(str, m))})

\* A Go identifier: not empty, a letter or "_" first, then letters, digits
\* and "_", and no reserved word.
ValidIdentifier(s) ==
    /\ Len(s) > 0
    /\ IsLetter(Char(s, 1)) \/ Char(s, 1) = "_"
    /\ \A i \in 1..Len(s) :
          IsLetter(Char(s, i)) \/ IsDigit(Char(s, i)) \/ Char(s, i) = "_"
    /\ s \notin reserved

\* C6: for every input string and both values of firstUpper, Goify returns
\* a valid Go identifier: non-empty, first character a letter or "_", every
\* character a letter, a digit or "_", and not a reserved word.
C6_GoifyValidIdentifier == Returned("Goify") => ValidIdentifier(result)

\* The bytes of str that are a letter right after an underscore.
AfterUnderscore(str) ==
    {j \in 2..Len(str) : Char(str, j - 1) = "_" /\ IsLetter(Char(str, j))}

\* No underscore among the runes the loop of Goify wrote.
NoUnderscoreInBody(str, out) ==
    \A n \in 1..Written(str, Len(str)) : n <= Len(out) /\ Char(out, n) # "_"

\* C7 as stated: for every input name, every underscore in it and both
\* values of firstUpper, the letter right after the underscore is upper-cased
\* in Goify's output, and the underscore is not copied into the body.
C7_Original ==
    Returned("Goify") =>
        /\ \A j \in AfterUnderscore(args.str) :
              Char(result, Written(args.str, j)) = ToUpper(Char(args.str, j))
        /\ NoUnderscoreInBody(args.str, result)

\* C7 as amended: the letter (a byte read as a rune) right after an
\* underscore is upper-cased in Goify's output unless no letter or digit
\* comes before it in the name; then it is the first rune of the output and
\* firstUpper alone decides its case. The underscore is not copied into the
\* body.
C7_UnderscoreUpper ==
    Returned("Goify") =>
        /\ \A j \in AfterUnderscore(args.str) :
              Char(result, Written(args.str, j)) =
                  IF Written(args.str, j) > 1 \/ args.firstUpper
                  THEN ToUpper(Char(args.str, j))
                  ELSE ToLower(Char(args.str, j))
        /\ NoUnderscoreInBody(args.str, result)

\* Goify("a_a", false) returned "aA", and Goify("_a", false) is among the
\* inputs.
C7_Witness ==
    /\ Returned("Goify")
    /\ args.str = "a_a" /\ ~args.firstUpper /\ result = "aA"

-----------------------------------------------------------------------------
(* Claims about the renderers, checked under SpecTypes. *)

\* The number of places at which sub occurs in s.
Count(s, sub) ==
    Cardinality({i \in 1..(Len(s) - Len(sub) + 1) :
                    SubSeq(s, i, i + Len(sub) - 1) = sub})

Contains(s, sub) == Count(s, sub) > 0

RECURSIVE Sum(_)
Sum(q) == IF Len(q) = 0 THEN 0 ELSE Head(q) + Sum(Tail(q))

RECURSIVE Concat(_)
Concat(q) == IF Len(q) = 0 THEN "" ELSE Head(q) \o Concat(Tail(q))

\* The sequences that list the elements of q in some order.
RECURSIVE Orders(_)
Orders(q) ==
    IF Len(q) = 0 THEN {<<>>}
    ELSE UNION { { <<q[i]>> \o rest :
                     rest \in Orders(SubSeq(q, 1, i - 1) \o SubSeq(q, i + 1, Len(q))) } :
                 i \in 1..Len(q) }

\* The sequences that hold, place by place, an element of the set at that
\* place of q.
RECURSIVE Picks(_)
Picks(q) ==
    IF Len(q) = 0 THEN {<<>>}
    ELSE { <<x>> \o rest : x \in Head(q), rest \in Picks(Tail(q)) }

\* The same tree with its maps yielding their fields in any other order, at
\* every depth.
RECURSIVE Shuffles(_)
Shuffles(x) ==
    CASE x.k = "Attribute" -> {[x EXCEPT !.Type = t] : t \in Shuffles(x.Type)}
      [] x.k = "Primitive" -> {x}
      [] x.k = "Array" -> {Array(e) : e \in Shuffles(x.ElemType)}
      [] x.k = "Hash" ->
            {Hash(key, e) : key \in Shuffles(x.KeyType), e \in Shuffles(x.ElemType)}
      [] x.k = "Object" ->
            LET each == [i \in 1..Len(x.fields) |->
                           {Field(x.fields[i].name, a) : a \in Shuffles(x.fields[i].att)}]
            IN { Object(fs) : fs \in UNION {Orders(c) : c \in Picks(each)} }
      [] IsNamed(x) ->
            {[x EXCEPT !.AttributeDefinition = d] :
                d \in Shuffles(x.AttributeDefinition)}

\* The attributes GoTypeDef renders as a struct under def, each with the
\* tabs it is rendered with: def itself, its fields, elements and keys.
RECURSIVE Structs(_, _)
Structs(def, tabs) ==
    LET t == def.Type IN
    CASE t.k = "Object" ->
            {[def |-> def, tabs |-> tabs]}
            \cup UNION {Structs(t.fields[i].att, tabs + 1) : i \in 1..Len(t.fields)}
      [] t.k = "Array" -> Structs(t.ElemType, tabs)
      [] t.k = "Hash" -> Structs(t.KeyType, tabs) \cup Structs(t.ElemType, tabs)
      [] OTHER -> {}

\* The strings of a set in strictly ascending order.
RECURSIVE AscendingOrder(_)
AscendingOrder(names) ==
    IF names = {} THEN <<>>
    ELSE LET least == CHOOSE x \in names : \A y \in names \ {x} : StrLess(x, y)
         IN <<least>> \o AscendingOrder(names \ {least})

\* The names of the fields of an object in strictly ascending order.
Ascending(obj) == AscendingOrder({obj.fields[i].name : i \in 1..Len(obj.fields)})

\* What GoTypeDef writes between "struct {" and the closing brace for the
\* object of def cut down to its field name.
Piece(def, name, versioned, defPkg, tabs, jsonTags) ==
    LET one == [def EXCEPT !.Type = Object(<<Field(name, FieldAtt(def.Type, name))>>)]
        text == GoTypeDef(one, versioned, defPkg, tabs, jsonTags)
    IN SubSeq(text, Len("struct {\n") + 1, Len(text) - tabs - 1)

\* text is the struct of def with its fields in ascending order of name.
InNameOrder(def, text, versioned, defPkg, tabs, jsonTags) ==
    LET names == Ascending(def.Type) IN
    text = "struct {\n"
             \o Concat([i \in 1..Len(names) |->
                          Piece(def, names[i], versioned, defPkg, tabs, jsonTags)])
             \o WriteTabs(tabs) \o "}"

\* C1: GoTypeDef emits the fields of every object, at the top level and at
\* every depth, in strictly ascending order of their names, whatever order
\* the maps are ranged over; the same tree and flags give the same string.
C1_FieldsSorted ==
    Returned("GoTypeDef") =>
        /\ \A other \in Shuffles(args.ds) :
              GoTypeDef(other, args.versioned, args.defPkg, args.tabs,
                        args.jsonTags) = result
        /\ \A s \in Structs(Definition(args.ds), args.tabs) :
              LET text == GoTypeDef(s.def, args.versioned, args.defPkg, s.tabs,
                                    args.jsonTags)
              IN /\ Contains(result, text)
                 /\ InNameOrder(s.def, text, args.versioned, args.defPkg,
                                s.tabs, args.jsonTags)

\* An object whose map yields user_name, id, a was rendered as A, ID,
\* UserName.
C1_Witness ==
    /\ Returned("GoTypeDef")
    /\ args.ds.k = "Attribute" /\ args.ds.Type.k = "Object"
    /\ Keys(args.ds.Type) = <<"user_name", "id", "a">>
    /\ result = "struct {\n\tA int\n\tID int\n\tUserName int\n}"

\* The tag of field name, with or without the omitempty marker.
Tag(name, omit) ==
    Backquote \o "json:\"" \o name \o omit \o "\" xml:\"" \o name \o omit
        \o "\"" \o Backquote

\* The number of fields called name, required or not as req says, among the
\* structs GoTypeDef renders under def.
RECURSIVE TagSites(_, _, _)
TagSites(def, name, req) ==
    LET t == def.Type IN
    CASE t.k = "Object" ->
            Sum([i \in 1..Len(t.fields) |->
                   (IF t.fields[i].name = name /\ (name \in def.Required) = req
                    THEN 1 ELSE 0)
                   + TagSites(t.fields[i].att, name, req)])
      [] t.k = "Array" -> TagSites(t.ElemType, name, req)
      [] t.k = "Hash" -> TagSites(t.KeyType, name, req) + TagSites(t.ElemType, name, req)
      [] OTHER -> 0

AllFieldNames == FieldNames \cup {"b"}

\* C2: with jsonTags, the tag of every field carries the field's original
\* name, and ",omitempty" exactly when the name is not in the required set
\* of the attribute that holds the object; without jsonTags there is no tag.
C2_RequiredTags ==
    Returned("GoTypeDef") =>
        IF args.jsonTags
        THEN \A name \in AllFieldNames :
                /\ Count(result, Tag(name, "")) =
                      TagSites(Definition(args.ds), name, TRUE)
                /\ Count(result, Tag(name, ",omitempty")) =
                      TagSites(Definition(args.ds), name, FALSE)
        ELSE ~Contains(result, Backquote)

\* id is required and tagged without omitempty, a is not and carries it.
C2_Witness ==
    /\ Returned("GoTypeDef") /\ args.jsonTags
    /\ args.ds.k = "Attribute" /\ args.ds.Required = {"id"}
    /\ Contains(result, Tag("id", ""))
    /\ Contains(result, Tag("a", ",omitempty"))

\* A bare object, or a named type over an object.
ObjectShaped(t) ==
    \/ t.k = "Object"
    \/ IsNamed(t) /\ IsObject(t.AttributeDefinition.Type)

\* C3: GoPackageTypeRef(t, ...) is "*" and GoPackageTypeName(t, ...) exactly
\* when t is a bare object or a named type over an object; for every other
\* t it is GoPackageTypeName(t, ...) with no "*" added.
C3_RefIndirection ==
    Returned("GoPackageTypeRef") =>
        LET name == GoPackageTypeName(args.t, args.required, args.versioned,
                                      args.defPkg, args.tabs)
        IN result = (IF ObjectShaped(args.t) THEN "*" \o name ELSE name)

\* A media type over an object was referred to from a version package.
C3_Witness ==
    /\ Returned("GoPackageTypeRef")
    /\ args.t.k = "MediaType" /\ args.t.AttributeDefinition.Type.k = "Object"
    /\ result = "*app.UserMedia"

\* The prefix of a named type as the claim states it.
ClaimedPrefix(t, versioned, defPkg) ==
    IF versioned /\ Len(t.APIVersions) = 0 THEN defPkg \o "." ELSE ""

\* The number of references to a named type called name that a rendering of
\* t reaches through arrays, maps and fields; with qualified, only those
\* that need the package prefix.
RECURSIVE NamedRefs(_, _, _, _)
NamedRefs(t, name, versioned, qualified) ==
    CASE IsNamed(t) ->
            IF t.TypeName = name
               /\ (qualified => (versioned /\ Len(t.APIVersions) = 0))
            THEN 1 ELSE 0
      [] t.k = "Array" -> NamedRefs(t.ElemType.Type, name, versioned, qualified)
      [] t.k = "Hash" ->
            NamedRefs(t.KeyType.Type, name, versioned, qualified)
            + NamedRefs(t.ElemType.Type, name, versioned, qualified)
      [] t.k = "Object" ->
            Sum([i \in 1..Len(t.fields) |->
                   NamedRefs(t.fields[i].att.Type, name, versioned, qualified)])
      [] OTHER -> 0

\* The type whose name GoTypeDef or GoPackageTypeName renders.
Rendered == IF op = "GoTypeDef" THEN Definition(args.ds).Type ELSE args.t

\* C4: GoPackageTypeName of a named type is prefix + Goify(name, true), the
\* prefix being defPkg + "." exactly when versioned is true and the type has
\* no version, and empty otherwise; so are the named types that GoTypeDef
\* and GoPackageTypeName reach through arrays, maps and fields.
C4_PackagePrefix ==
    /\ (Returned("GoPackageTypeName") /\ IsNamed(args.t)) =>
          result = ClaimedPrefix(args.t, args.versioned, args.defPkg)
                      \o Goify(args.t.TypeName, TRUE)
    /\ (Returned("GoTypeDef") \/ Returned("GoPackageTypeName")) =>
          \A name \in TypeNames :
             /\ Count(result, Goify(name, TRUE)) =
                   NamedRefs(Rendered, name, args.versioned, FALSE)
             /\ Count(result, args.defPkg \o "." \o Goify(name, TRUE)) =
                   NamedRefs(Rendered, name, args.versioned, TRUE)

\* From a version package, one struct refers to bottle with the prefix, in
\* an array (the type has no version), and without it (the type has one).
C4_Witness ==
    /\ Returned("GoTypeDef") /\ args.versioned
    /\ Count(result, "[]*app.Bottle") = 1
    /\ Count(result, "app.Bottle") = 1
    /\ Count(result, "Bottle") = 2

\* Two fields of the object have distinct names and one Go identifier.
Collides(obj) ==
    \E i, j \in 1..Len(obj.fields) :
        /\ obj.fields[i].name # obj.fields[j].name
        /\ Goify(obj.fields[i].name, TRUE) = Goify(obj.fields[j].name, TRUE)

\* C5: when two distinct field names of an object have the same Goify, the
\* rendering fails: GoTypeDef never returns a struct with both fields under
\* the one identifier.
C5_CollisionFails ==
    (Returned("GoTypeDef") /\ Definition(args.ds).Type.k = "Object"
                           /\ Collides(Definition(args.ds).Type)) =>
        \A i \in 1..Len(Definition(args.ds).Type.fields) :
            Count(result,
                  Goify(Definition(args.ds).Type.fields[i].name, TRUE) \o " ") < 2

\* The lines of s: the text between its line feeds.
RECURSIVE Lines(_)
Lines(s) ==
    IF ~Within(s, "\n") THEN <<s>>
    ELSE LET n == CHOOSE i \in 1..Len(s) :
                     Char(s, i) = "\n" /\ \A j \in 1..(i - 1) : Char(s, j) # "\n"
         IN <<SubSeq(s, 1, n - 1)>> \o Lines(SubSeq(s, n + 1, Len(s)))

\* The number of tabs line starts with.
LeadingTabs(line) ==
    Cardinality({i \in 1..Len(line) : \A j \in 1..i : Char(line, j) = "\t"})

\* C8: for every object, tabs k and descriptions, the first line of
\* GoTypeDef's output has no leading tab and every later line starts with at
\* least k tabs: the lines of the fields and of their comments with k + 1,
\* the closing brace with exactly k.
C8_Indentation ==
    (Returned("GoTypeDef") /\ Definition(args.ds).Type.k = "Object") =>
        LET lines == Lines(result) IN
        /\ LeadingTabs(lines[1]) = 0
        /\ \A i \in 2..(Len(lines) - 1) : LeadingTabs(lines[i]) >= args.tabs + 1
        /\ lines[Len(lines)] = WriteTabs(args.tabs) \o "}"

\* C10 as stated: GoPackageTypeName of an array is "[]" and
\* GoPackageTypeName of the element type, with the element's own required
\* set and tabs + 1.
C10_Original ==
    (Returned("GoPackageTypeName") /\ args.t.k = "Array") =>
        result = "[]" \o GoPackageTypeName(args.t.ElemType.Type,
                                           args.t.ElemType.Required,
                                           args.versioned, args.defPkg,
                                           args.tabs + 1)

\* C10 as amended: GoPackageTypeName of an array is "[]", then "*" when the
\* element is a bare object or a named type over an object, then
\* GoPackageTypeName of the element type with the element's own required
\* set and tabs + 1.
C10_ArrayOfRef ==
    (Returned("GoPackageTypeName") /\ args.t.k = "Array") =>
        result = "[]"
                   \o (IF ObjectShaped(args.t.ElemType.Type) THEN "*" ELSE "")
                   \o GoPackageTypeName(args.t.ElemType.Type,
                                        args.t.ElemType.Required,
                                        args.versioned, args.defPkg,
                                        args.tabs + 1)

\* An array of inner objects was named with tabs = 1: the fields of the
\* struct are indented by three tabs, its closing brace by two.
C10_Witness ==
    /\ Returned("GoPackageTypeName")
    /\ args.t = Array(InnerAtt) /\ args.tabs = 1
    /\ result = "[]*struct {\n\t\t\tB int\n\t\t\t// the name\nID string\n\t\t}"

-----------------------------------------------------------------------------
(* The claim about Tempvar, checked under Spec. *)

\* C9: in a sequential run of Tempvar calls among calls of GoTypeDef,
\* GoPackageTypeRef, GoPackageTypeName, GoNativeType, Goify and
\* PackagePrefix, each Tempvar call adds exactly 1 to TempCount and returns
\* a name no earlier Tempvar call of the run returned, and no other step
\* changes TempCount.
C9_TempCount ==
    [][ IF pc = "call" /\ op = "Tempvar"
        THEN /\ TempCount' = TempCount + 1
             /\ pc' = "done"
             /\ result' \notin issued
             /\ issued' = issued \cup {result'}
        ELSE /\ TempCount' = TempCount
             /\ issued' = issued ]_vars

\* The eleventh Tempvar call of a run returned tmp11.
C9_Witness ==
    /\ Returned("Tempvar")
    /\ TempCount = 11 /\ result = "tmp11"
    /\ Cardinality(issued) = 11

=============================================================================
